---- MODULE Spec2Model ----
(***************************************************************************)
(* A model of the three database demo applications of this repository:    *)
(* the MongoDB library catalog (UserManager, BookManager, MongoDBClient), *)
(* the Neo4j movie graph (Neo4jClient, MovieGraphInterface) and the       *)
(* Elasticsearch movie search (ElasticsearchClient, MovieSearchInterface).*)
(*                                                                         *)
(* The library part models every driver call of a manager method as one   *)
(* step of a session, so that one CLI process (Spec) and two CLI          *)
(* processes working on the same database (SpecRace) run the same code.   *)
(***************************************************************************)
EXTENDS Integers, Sequences, FiniteSets, TLC

\* ------------------------------------------------------------------ bounds

MaxCopies == 2
MaxCalls == 2
MaxPrompts == 3
MaxRuns == 2
MaxGraphCalls == 3

\* ------------------------------------------------------------- value sets

None == <<>>
Some(x) == <<x>>
Val(o) == o[1]

Users == {"u1", "u2"}
UserIdArgs == Users \cup {"u0"}
Books == {"b1", "b2"}
InvalidId == "not-an-objectid"
BookIdArgs == Books \cup {"b0", InvalidId}
RatingArgs == {None, Some(0), Some(1), Some(5), Some(6)}
Sessions == {"s1", "s2"}
Date == Some("utcnow")
CopyArgs == {None, Some(0 - 1), Some(MaxCopies)}
TotalArgs == {None, Some(1)}

\* connect(max_retries) is called with -1 .. MaxRetriesArg; the default is 3.
MaxRetriesArg == 3

Apps == {"mongodb", "neo4j", "elasticsearch"}

VARIABLES
    books_collection,   \* the books collection of library_catalog: _id -> document
    users_collection,   \* the users collection: user_id -> document
    proc,               \* per session: the manager call in progress, or the last one
    calls,              \* the number of manager calls made
    mongo,              \* MongoDBClient: self.client, self.db
    neo4j,              \* Neo4jClient: self.driver
    conn,               \* the connect() call in progress, or the last one
    last,               \* the last client operation and how it ended
    repl,               \* the interactive interface: its loop and last event
    hist,               \* history: has a connect() succeeded since the last close()
    main,               \* main() of the MongoDB CLI: its position and how it ended
    catalog,            \* the library_catalog database as main() sees it: the number of books
    graph               \* the Neo4j graph, and the last call of PersonManager / DataLoader

lib_vars == <<books_collection, users_collection, proc, calls>>
client_vars == <<mongo, neo4j, conn, last>>
ui_vars == <<repl>>
app_vars == <<main, catalog>>
graph_vars == <<graph>>
vars == <<books_collection, users_collection, proc, calls, mongo, neo4j, conn, last, repl,
          hist, main, catalog, graph>>

\* ------------------------------------------------------- documents (seeds)

\* data_loader.py: a borrowing record; returned_date is None while the book
\* is out.
BorrowingRecord(b, returned_date, rating) ==
    [book_id |-> b, returned_date |-> returned_date, rating |-> rating]

\* generate_borrowing_history gives every user a history of records drawn at
\* random: here one user with a book still out, one with a book returned
\* and rated.
SeedHistory(u) ==
    IF u = "u1"
    THEN <<BorrowingRecord("b1", None, None)>>
    ELSE <<BorrowingRecord("b2", Date, Some(5))>>

SeedCopies(b) == IF b = "b1" THEN 1 ELSE MaxCopies

SeedRatingsDoc(b) ==
    IF b = "b1"
    THEN [average |-> 450, count |-> 2, distribution |-> <<0, 0, 0, 1, 1>>]
    ELSE [average |-> 0, count |-> 0, distribution |-> <<0, 0, 0, 0, 0>>]

\* --------------------------------------------------------- session records

Idle ==
    [pc |-> "idle", op |-> "none", user_id |-> "u0", book_id |-> "b0",
     rating |-> None, available_copies |-> None, total_copies |-> None,
     book |-> None, ret |-> FALSE, log |-> "",
     pre |-> [books |-> <<>>, users |-> <<>>]]

\* The state of the database when a call is entered, kept to state what the
\* call changed.
Snapshot == [books |-> books_collection, users |-> users_collection]

\* A manager method returns `ret` after logging `log`.
Return(s, ret, log) ==
    proc' = [proc EXCEPT ![s].pc = "idle", ![s].ret = ret, ![s].log = log]

Goto(s, pc) == proc' = [proc EXCEPT ![s].pc = pc]

\* bson.ObjectId(book_id) raises InvalidId on a malformed string.
ObjectIdRaises(book_id) == book_id = InvalidId

\* collection.find_one({"_id": book_id}): the document or None.
find_one_book(book_id) ==
    IF book_id \in Books THEN Some(books_collection[book_id]) ELSE None

\* UserManager.find_user_by_id: the document, or None when the user is
\* missing or the driver call raised (the method catches and returns None).
find_user_by_id(user_id, ok) ==
    IF ok /\ user_id \in Users THEN Some(users_collection[user_id]) ELSE None

\* Fault variant: every record of the history counts as a current loan.
NotReturned_any(record) == TRUE

\* record.get("returned_date") is None, and the "returned_date": None of the
\* $elemMatch filter.
NotReturned(record) == record.returned_date = None

\* UserManager.get_currently_borrowed_books: the unreturned records whose
\* book is found; [] when the user is missing or any driver call raised.
get_currently_borrowed_books(user_id, ok) ==
    LET user == find_user_by_id(user_id, ok)
    IN  IF user = None THEN <<>>
        ELSE SelectSeq(Val(user).borrowing_history,
                       LAMBDA record : NotReturned(record)
                                       /\ find_one_book(record.book_id) # None)

HasBorrowed(currently_borrowed, book_id) ==
    \E i \in 1..Len(currently_borrowed) : currently_borrowed[i].book_id = book_id

\* Fault variant: $set in place of $inc.
IncAvailableCopies_set(coll, book_id, d) ==
    [coll EXCEPT ![book_id].available_copies = d]

\* Fault variant: the decrement filtered by available_copies > 0, as in
\* BookManager.borrow_book.
IncAvailableCopies_guarded(coll, book_id, d) ==
    IF d < 0 /\ coll[book_id].available_copies <= 0 THEN coll
    ELSE [coll EXCEPT ![book_id].available_copies = @ + d]

\* {"$inc": {"available_copies": d}} on the book with this _id.
IncAvailableCopies(coll, book_id, d) ==
    [coll EXCEPT ![book_id].available_copies = @ + d]

\* {"$push": {"borrowing_history": record}} on the user with this user_id.
PushBorrowingRecord(coll, user_id, record) ==
    [coll EXCEPT ![user_id].borrowing_history = Append(@, record)]

\* book.get("available_copies", 0) <= 0
NoAvailableCopies(book) == book.available_copies <= 0

\* Fault variant: the lower limit off by one.
RatingInRange_zero(rating) == 0 <= rating /\ rating <= 5

\* 1 <= rating <= 5
RatingInRange(rating) == 1 <= rating /\ rating <= 5

\* The index of the first element matched by
\* {"$elemMatch": {"book_id": book_id, "returned_date": None}}, 0 when none.
FirstUnreturned(history, book_id) ==
    LET hits == {i \in 1..Len(history) : history[i].book_id = book_id
                                         /\ NotReturned(history[i])}
    IN  IF hits = {} THEN 0 ELSE CHOOSE i \in hits : \A j \in hits : i <= j

\* {"$set": {"borrowing_history.$.returned_date": ..., "borrowing_history.$.rating": ...}}
SetReturned(history, i, rating) ==
    [history EXCEPT ![i].returned_date = Date, ![i].rating = rating]


\* ------------------------------------------------------------ entering

\* Every driver call either answers (ok) or raises (~ok).
Driver == BOOLEAN

\* A session calls a manager method: the arguments become its locals. The
\* method starts at `pc`, or has already returned when pc = "idle".
Enter(s, op, user_id, book_id, rating, available_copies, total_copies, pc, ret, log) ==
    /\ proc[s].pc = "idle"
    /\ calls < MaxCalls
    /\ calls' = calls + 1
    /\ proc' = [proc EXCEPT ![s] =
                   [pc |-> pc, op |-> op, user_id |-> user_id, book_id |-> book_id,
                    rating |-> rating, available_copies |-> available_copies,
                    total_copies |-> total_copies, book |-> None,
                    ret |-> ret, log |-> log, pre |-> Snapshot]]
    /\ UNCHANGED <<books_collection, users_collection, client_vars, ui_vars, hist, app_vars, graph_vars>>

\* result.modified_count of an update_one whose filter matched `matched`
\* documents and whose update changes the document (every update of the
\* managers sets a fresh value).
modified_count(matched) == IF matched THEN 1 ELSE 0

\* ------------------------------------------------- UserManager.borrow_book

\* borrow_book(user_id, book_id) is called; ObjectId(book_id) is evaluated.
borrow_book(s, user_id, book_id) ==
    IF ObjectIdRaises(book_id)
    THEN Enter(s, "borrow_book", user_id, book_id, None, None, None,
               "idle", FALSE, "Error borrowing book")
    ELSE Enter(s, "borrow_book", user_id, book_id, None, None, None,
               "borrow_find_user", FALSE, "")

\* user = self.find_user_by_id(user_id)
borrow_find_user(s, ok) ==
    /\ proc[s].pc = "borrow_find_user"
    /\ IF find_user_by_id(proc[s].user_id, ok) = None
       THEN Return(s, FALSE, "User not found")
       ELSE Goto(s, "borrow_find_book")
    /\ UNCHANGED <<books_collection, users_collection, calls, client_vars, ui_vars, hist, app_vars, graph_vars>>

\* book = self.books_collection.find_one({"_id": book_id}) and the
\* availability check on the document that was read.
borrow_find_book(s, ok) ==
    /\ proc[s].pc = "borrow_find_book"
    /\ LET book == find_one_book(proc[s].book_id)
       IN  IF ~ok THEN Return(s, FALSE, "Error borrowing book")
           ELSE IF book = None THEN Return(s, FALSE, "Book not found")
           ELSE IF NoAvailableCopies(Val(book))
                THEN Return(s, FALSE, "No available copies to borrow")
           ELSE proc' = [proc EXCEPT ![s].pc = "borrow_currently", ![s].book = book]
    /\ UNCHANGED <<books_collection, users_collection, calls, client_vars, ui_vars, hist, app_vars, graph_vars>>

\* currently_borrowed = self.get_currently_borrowed_books(user_id) and the
\* loop over it.
borrow_currently(s, ok) ==
    /\ proc[s].pc = "borrow_currently"
    /\ IF HasBorrowed(get_currently_borrowed_books(proc[s].user_id, ok), proc[s].book_id)
       THEN Return(s, FALSE, "User already has this book borrowed")
       ELSE Goto(s, "borrow_push")
    /\ UNCHANGED <<books_collection, users_collection, calls, client_vars, ui_vars, hist, app_vars, graph_vars>>

\* self.users_collection.update_one({"user_id": user_id}, {"$push": ...})
borrow_push(s, ok) ==
    /\ proc[s].pc = "borrow_push"
    /\ IF ~ok
       THEN /\ Return(s, FALSE, "Error borrowing book")
            /\ UNCHANGED users_collection
       ELSE IF modified_count(proc[s].user_id \in Users) > 0
       THEN /\ users_collection' =
                  PushBorrowingRecord(users_collection, proc[s].user_id,
                                      BorrowingRecord(proc[s].book_id, None, None))
            /\ Goto(s, "borrow_inc")
       ELSE /\ Return(s, FALSE, "Failed to update user borrowing history")
            /\ UNCHANGED users_collection
    /\ UNCHANGED <<books_collection, calls, client_vars, ui_vars, hist, app_vars, graph_vars>>

\* self.books_collection.update_one({"_id": book_id}, {"$inc": {"available_copies": -1}})
borrow_inc(s, ok) ==
    /\ proc[s].pc = "borrow_inc"
    /\ IF ~ok
       THEN /\ Return(s, FALSE, "Error borrowing book")
            /\ UNCHANGED books_collection
       ELSE /\ books_collection' =
                  IncAvailableCopies(books_collection, proc[s].book_id, 0 - 1)
            /\ Return(s, TRUE, "borrowed book")
    /\ UNCHANGED <<users_collection, calls, client_vars, ui_vars, hist, app_vars, graph_vars>>

\* ------------------------------------------------- UserManager.return_book

\* return_book(user_id, book_id, rating) is called.
return_book(s, user_id, book_id, rating) ==
    IF ObjectIdRaises(book_id)
    THEN Enter(s, "return_book", user_id, book_id, rating, None, None,
               "idle", FALSE, "Error returning book")
    ELSE Enter(s, "return_book", user_id, book_id, rating, None, None,
               "return_find_user", FALSE, "")

\* user = self.find_user_by_id(user_id)
return_find_user(s, ok) ==
    /\ proc[s].pc = "return_find_user"
    /\ IF find_user_by_id(proc[s].user_id, ok) = None
       THEN Return(s, FALSE, "User not found")
       ELSE Goto(s, "return_currently")
    /\ UNCHANGED <<books_collection, users_collection, calls, client_vars, ui_vars, hist, app_vars, graph_vars>>

\* currently_borrowed = self.get_currently_borrowed_books(user_id), the
\* search for the book in it, and the validation of the rating.
return_currently(s, ok) ==
    /\ proc[s].pc = "return_currently"
    /\ LET book_found ==
               HasBorrowed(get_currently_borrowed_books(proc[s].user_id, ok),
                           proc[s].book_id)
       IN  IF ~book_found
           THEN Return(s, FALSE, "User does not have this book borrowed")
           ELSE IF proc[s].rating # None /\ ~RatingInRange(Val(proc[s].rating))
           THEN Return(s, FALSE, "Rating must be between 1 and 5")
           ELSE Goto(s, "return_set")
    /\ UNCHANGED <<books_collection, users_collection, calls, client_vars, ui_vars, hist, app_vars, graph_vars>>

\* self.users_collection.update_one({... "$elemMatch" ...}, {"$set": ...})
return_set(s, ok) ==
    /\ proc[s].pc = "return_set"
    /\ LET history == users_collection[proc[s].user_id].borrowing_history
           i == FirstUnreturned(history, proc[s].book_id)
       IN  IF ~ok
           THEN /\ Return(s, FALSE, "Error returning book")
                /\ UNCHANGED users_collection
           ELSE IF modified_count(i > 0) > 0
           THEN /\ users_collection' =
                      [users_collection EXCEPT ![proc[s].user_id].borrowing_history =
                           SetReturned(history, i, proc[s].rating)]
                /\ Goto(s, "return_inc")
           ELSE /\ Return(s, FALSE, "Failed to update borrowing record")
                /\ UNCHANGED users_collection
    /\ UNCHANGED <<books_collection, calls, client_vars, ui_vars, hist, app_vars, graph_vars>>

\* self.books_collection.update_one({"_id": book_id}, {"$inc": {"available_copies": 1}})
\* and, with a rating, the call of BookManager.add_rating.
return_inc(s, ok) ==
    /\ proc[s].pc = "return_inc"
    /\ IF ~ok
       THEN /\ Return(s, FALSE, "Error returning book")
            /\ UNCHANGED books_collection
       ELSE /\ books_collection' =
                  IncAvailableCopies(books_collection, proc[s].book_id, 1)
            /\ IF proc[s].rating = None
               THEN Return(s, TRUE, "returned book")
               ELSE Goto(s, "rating_get_book")
    /\ UNCHANGED <<users_collection, calls, client_vars, ui_vars, hist, app_vars, graph_vars>>

\* -------------------------------------------------- BookManager.add_rating

\* round(x, 2) of x = num / den, in hundredths: the nearest hundredth, and
\* either neighbour when x lies halfway (the float's last bit decides).
Round2(num, den) ==
    LET q == num \div den
        r == num % den
    IN  IF 2 * r < den THEN {q}
        ELSE IF 2 * r > den THEN {q + 1}
        ELSE {q, q + 1}

\* Fault variant: the neighbouring bucket is incremented.
NewDistribution_shifted(current_distribution, rating) ==
    [current_distribution EXCEPT ![(rating % 5) + 1] = @ + 1]

\* new_distribution = current_distribution.copy(); new_distribution[rating - 1] += 1
\* (a Python list is 0-based, a TLA+ sequence 1-based).
NewDistribution(current_distribution, rating) ==
    [current_distribution EXCEPT ![rating] = @ + 1]

\* new_count = current_count + 1
NewCount(current_count) == current_count + 1

\* The ratings documents add_rating may write, computed from the book it
\* read; averages are held in hundredths.
NewRatings(current_ratings, rating) ==
    {[average |-> a,
      count |-> NewCount(current_ratings.count),
      distribution |-> NewDistribution(current_ratings.distribution, rating)] :
        a \in Round2(current_ratings.average * current_ratings.count + 100 * rating,
                     NewCount(current_ratings.count))}

\* add_rating returns: to the interface, or into return_book, which ignores
\* the result and returns True.
ReturnFromAddRating(s, ret, log) ==
    IF proc[s].op = "return_book"
    THEN Return(s, TRUE, "returned book")
    ELSE Return(s, ret, log)

\* add_rating(book_id, rating) is called: ObjectId(book_id), then the range
\* check of the rating.
add_rating(s, book_id, rating) ==
    IF ObjectIdRaises(book_id)
    THEN Enter(s, "add_rating", "u0", book_id, Some(rating), None, None,
               "idle", FALSE, "Error adding rating")
    ELSE IF ~RatingInRange(rating)
    THEN Enter(s, "add_rating", "u0", book_id, Some(rating), None, None,
               "idle", FALSE, "Rating must be between 1 and 5")
    ELSE Enter(s, "add_rating", "u0", book_id, Some(rating), None, None,
               "rating_get_book", FALSE, "")

\* book = self.get_book_by_id(book_id), which returns None when the driver
\* call raised.
rating_get_book(s, ok) ==
    /\ proc[s].pc = "rating_get_book"
    /\ LET book == IF ok THEN find_one_book(proc[s].book_id) ELSE None
       IN  IF book = None
           THEN ReturnFromAddRating(s, FALSE, "Book not found")
           ELSE proc' = [proc EXCEPT ![s].pc = "rating_update", ![s].book = book]
    /\ UNCHANGED <<books_collection, users_collection, calls, client_vars, ui_vars, hist, app_vars, graph_vars>>

\* self.books_collection.update_one({"_id": book_id}, {"$set": {"ratings.average": ...}})
rating_update(s, ok) ==
    /\ proc[s].pc = "rating_update"
    /\ IF ~ok
       THEN /\ ReturnFromAddRating(s, FALSE, "Error adding rating")
            /\ UNCHANGED books_collection
       ELSE IF modified_count(proc[s].book_id \in Books) > 0
       THEN /\ \E ratings \in NewRatings(Val(proc[s].book).ratings, Val(proc[s].rating)) :
                  books_collection' =
                      [books_collection EXCEPT ![proc[s].book_id].ratings = ratings]
            /\ ReturnFromAddRating(s, TRUE, "Added rating")
       ELSE /\ ReturnFromAddRating(s, FALSE, "Failed to update book rating")
            /\ UNCHANGED books_collection
    /\ UNCHANGED <<users_collection, calls, client_vars, ui_vars, hist, app_vars, graph_vars>>

\* ------------------------------------------ BookManager.update_availability

\* update_availability(book_id, available_copies, total_copies) is called.
update_availability(s, book_id, available_copies, total_copies) ==
    IF ObjectIdRaises(book_id)
    THEN Enter(s, "update_availability", "u0", book_id, None, available_copies,
               total_copies, "idle", FALSE, "Error updating availability")
    ELSE Enter(s, "update_availability", "u0", book_id, None, available_copies,
               total_copies, "availability_update", FALSE, "")

\* Fault variant: available_copies is kept within 0 .. total_copies.
UpdateFields_validated(book, available_copies, total_copies) ==
    LET total == IF total_copies # None THEN Val(total_copies) ELSE book.total_copies
        asked == IF available_copies # None THEN Val(available_copies)
                 ELSE book.available_copies
    IN  [book EXCEPT
            !.total_copies = total,
            !.available_copies = IF asked < 0 THEN 0
                                 ELSE IF asked > total THEN total ELSE asked]

\* update_fields: only the arguments that are not None are set.
UpdateFields(book, available_copies, total_copies) ==
    [book EXCEPT
        !.available_copies = IF available_copies # None THEN Val(available_copies) ELSE @,
        !.total_copies = IF total_copies # None THEN Val(total_copies) ELSE @]

\* self.books_collection.update_one({"_id": book_id}, {"$set": update_fields})
availability_update(s, ok) ==
    /\ proc[s].pc = "availability_update"
    /\ IF ~ok
       THEN /\ Return(s, FALSE, "Error updating availability")
            /\ UNCHANGED books_collection
       ELSE IF modified_count(proc[s].book_id \in Books) > 0
       THEN /\ books_collection' =
                  [books_collection EXCEPT ![proc[s].book_id] =
                       UpdateFields(@, proc[s].available_copies, proc[s].total_copies)]
            /\ Return(s, TRUE, "Updated availability")
       ELSE /\ Return(s, FALSE, "Failed to update book availability")
            /\ UNCHANGED books_collection
    /\ UNCHANGED <<users_collection, calls, client_vars, ui_vars, hist, app_vars, graph_vars>>

\* ------------------------------------------- MongoDBClient, Neo4jClient

NoConnect ==
    [app |-> "mongodb", pc |-> "idle", max_retries |-> 0, attempt |-> 0,
     outcomes |-> <<>>, ret |-> FALSE, returned |-> FALSE]

NoOperation == [app |-> "mongodb", op |-> "none", connected |-> FALSE,
                result |-> "value", logged |-> FALSE, calls |-> <<>>]

\* No interface is running.
NoInterface ==
    [app |-> "none", pc |-> "off", choice |-> "", event |-> "", printed |-> "",
     prompts |-> 0]

\* No connect() has succeeded yet.
NoHistory == [succeeded |-> FALSE]

\* main() is not running; the database is empty; so is the graph.
NoMain ==
    [pc |-> "off", run |-> 0, bound |-> FALSE, opened |-> FALSE, setup |-> None,
     load_ret |-> None, path |-> ""]
NoCatalog == [books |-> 0, seeded |-> FALSE]
NoGraph == [nodes |-> <<>>, constraints |-> {}, rels |-> 0, calls |-> 0, last |-> <<>>]

InitRest == main = NoMain /\ catalog = NoCatalog /\ graph = NoGraph

\* __init__: self.client = None, self.db = None; self.driver = None.
InitClient ==
    /\ mongo = [client |-> None, db |-> None]
    /\ neo4j = [driver |-> None]
    /\ conn = NoConnect
    /\ last = NoOperation
    /\ repl = NoInterface
    /\ hist = NoHistory

\* How one connection attempt ends: the server answers; the driver raises a
\* connection error (ConnectionFailure, ServerSelectionTimeoutError;
\* ServiceUnavailable, AuthError); the test command raises another
\* exception; the constructor of the driver object raises.
AttemptOutcomes == {"ok", "unavailable", "error", "ctor_error"}

\* Fault variant: one attempt too many.
InRange_inclusive(attempt, max_retries) == attempt <= max_retries

\* for attempt in range(max_retries): the loop body runs for this attempt.
InRange(attempt, max_retries) == attempt < max_retries

\* Fault variant: every exception is retried.
IsConnectionError_any(outcome) == outcome # "ok"

\* except (ConnectionFailure, ServerSelectionTimeoutError) /
\* except (ServiceUnavailable, AuthError): the exceptions that are retried.
IsConnectionError(outcome) == outcome = "unavailable"

\* if attempt < max_retries - 1: sleep and go round again.
RetryAfter(attempt, max_retries) == attempt < max_retries - 1

\* The loop of connect() at `attempt`: the next attempt, or the loop is
\* exhausted and connect() falls through to `return False`.
AtLoopHead(c, attempt) ==
    IF InRange(attempt, c.max_retries)
    THEN [c EXCEPT !.pc = "try", !.attempt = attempt]
    ELSE [c EXCEPT !.pc = "idle", !.attempt = attempt, !.ret = FALSE, !.returned = TRUE]

\* connect(max_retries, retry_delay) is called on the client of `app`.
connect(app, max_retries) ==
    /\ conn.pc = "idle"
    /\ conn' = AtLoopHead([app |-> app, pc |-> "try", max_retries |-> max_retries,
                           attempt |-> 0, outcomes |-> <<>>, ret |-> FALSE,
                           returned |-> FALSE], 0)
    /\ last' = NoOperation
    /\ UNCHANGED <<mongo, neo4j, lib_vars, ui_vars, hist, app_vars, graph_vars>>

\* What an attempt leaves in the client object: the driver object is stored
\* as soon as it is constructed, self.db only after the test command.
AfterAttemptMongo(m, outcome) ==
    [client |-> IF outcome = "ctor_error" THEN m.client ELSE Some("MongoClient"),
     db |-> IF outcome = "ok" THEN Some("library_catalog") ELSE m.db]

AfterAttemptNeo4j(n, outcome) ==
    [driver |-> IF outcome = "ctor_error" THEN n.driver ELSE Some("driver")]

\* One pass through the try block of connect() and its except clauses.
connect_attempt(outcome) ==
    /\ conn.pc = "try"
    /\ LET c == [conn EXCEPT !.outcomes = Append(@, outcome)]
       IN  conn' =
               IF outcome = "ok"
               THEN [c EXCEPT !.pc = "idle", !.ret = TRUE, !.returned = TRUE]
               ELSE IF IsConnectionError(outcome) /\ RetryAfter(conn.attempt, conn.max_retries)
               THEN [c EXCEPT !.pc = "sleep"]
               ELSE [c EXCEPT !.pc = "idle", !.ret = FALSE, !.returned = TRUE]
    /\ IF conn.app = "mongodb"
       THEN mongo' = AfterAttemptMongo(mongo, outcome) /\ UNCHANGED neo4j
       ELSE neo4j' = AfterAttemptNeo4j(neo4j, outcome) /\ UNCHANGED mongo
    /\ hist' = IF conn.app = "mongodb" /\ outcome = "ok"
               THEN [hist EXCEPT !.succeeded = TRUE] ELSE hist
    /\ UNCHANGED <<last, lib_vars, ui_vars, app_vars, graph_vars>>

\* time.sleep(retry_delay) returns and the loop goes to its next attempt.
connect_sleep ==
    /\ conn.pc = "sleep"
    /\ conn' = AtLoopHead(conn, conn.attempt + 1)
    /\ UNCHANGED <<mongo, neo4j, last, lib_vars, ui_vars, hist, app_vars, graph_vars>>

\* Fault variant: close() forgets self.db.
MongoClosed_keeps_db(m) ==
    IF m.client # None THEN [m EXCEPT !.client = None] ELSE m

\* MongoDBClient.close: if self.client: close it; self.client = None;
\* self.db = None.
MongoClosed(m) ==
    IF m.client # None THEN [client |-> None, db |-> None] ELSE m

\* Neo4jClient.close: if self.driver: close it; self.driver = None.
Neo4jClosed(n) ==
    IF n.driver # None THEN [driver |-> None] ELSE n

\* MongoDBClient.close / Neo4jClient.close is called; `last` is the last
\* operation since the client was last connected or closed.
close(app) ==
    /\ conn.pc = "idle"
    /\ IF app = "mongodb"
       THEN /\ mongo' = MongoClosed(mongo)
            /\ hist' = [hist EXCEPT !.succeeded = FALSE]
            /\ UNCHANGED neo4j
       ELSE /\ neo4j' = Neo4jClosed(neo4j)
            /\ UNCHANGED <<mongo, hist>>
    /\ last' = NoOperation
    /\ UNCHANGED <<conn, lib_vars, ui_vars, app_vars, graph_vars>>

\* ------------------------------------------------ the client operations

\* How an operation ends: with its value, with its empty/sentinel value
\* ([], {}, False, None, {"error": ...}, {"connected": False, ...}), or by
\* raising. `logged` says that it logged or printed the error; `calls` are
\* the driver calls it issued, each with the driver's answer.
Value(issued) == [result |-> "value", logged |-> FALSE, calls |-> issued]
Sentinel(logged, issued) == [result |-> "sentinel", logged |-> logged, calls |-> issued]
Raised(logged, issued) == [result |-> "raised", logged |-> logged, calls |-> issued]

DriverCall(q, ok) == [call |-> q, ok |-> ok]

\* The driver calls of a block that issues `queries` in order and is left at
\* the first one that raises, the fail_at-th (0: none raises).
Trace(queries, fail_at) ==
    [i \in 1..(IF fail_at = 0 THEN Len(queries) ELSE fail_at) |->
        DriverCall(queries[i], i # fail_at)]

\* Fault variant: the except clause raises again.
Caught_reraised(o) == o

\* try: ... except Exception as e: self.logger.error(...); return <sentinel>
Caught(o) == IF o.result = "raised" THEN Sentinel(TRUE, o.calls) ELSE o

\* try: ... except Exception as e: return {"connected": False, "message": str(e)}
\* (and ElasticsearchClient.health_check's return {'error': str(e)}): caught,
\* folded into the result, not logged.
CaughtQuietly(o) == IF o.result = "raised" THEN Sentinel(FALSE, o.calls) ELSE o

\* Neo4jClient.execute_query / execute_write_query: RuntimeError without a
\* driver; a failing query is logged and raised again.
execute_query(q, ok) ==
    IF neo4j.driver = None THEN Raised(FALSE, <<>>)
    ELSE IF ok THEN Value(<<DriverCall(q, TRUE)>>)
    ELSE Raised(TRUE, <<DriverCall(q, FALSE)>>)

\* A block of execute_query calls with no handler of its own.
execute_queries(queries, fail_at) ==
    IF neo4j.driver = None THEN Raised(FALSE, <<>>)
    ELSE IF fail_at = 0 THEN Value(Trace(queries, fail_at))
    ELSE Raised(TRUE, Trace(queries, fail_at))

InfoQueries == <<"db.labels", "db.relationshipTypes", "count(n)", "count(r)">>
IndexQueries == <<"movie_title", "movie_year", "person_name", "genre_name">>
ConstraintQueries == <<"movie_title_unique", "person_name_unique", "genre_name_unique">>

\* Neo4jClient.get_database_info
get_database_info(fail_at) == Caught(execute_queries(InfoQueries, fail_at))

\* Neo4jClient.clear_database
clear_database(ok) == Caught(execute_query("DETACH DELETE", ok))

\* Neo4jClient.create_indexes
neo4j_create_indexes(fail_at) == Caught(execute_queries(IndexQueries, fail_at))

\* Neo4jClient.create_constraints: every query has its own handler, which
\* logs a warning and goes on to the next query; the method returns True.
create_constraints(oks) ==
    IF neo4j.driver = None THEN [Value(<<>>) EXCEPT !.logged = TRUE]
    ELSE [Value([i \in 1..Len(ConstraintQueries) |->
                    DriverCall(ConstraintQueries[i], oks[i])])
          EXCEPT !.logged = \E i \in 1..Len(ConstraintQueries) : ~oks[i]]

\* MovieManager.search_movies, as every method of the Neo4j managers: one
\* execute_query in a try block.
search_movies(ok) == Caught(execute_query("MATCH (m:Movie)", ok))

\* MongoDBClient.get_database / get_collection: RuntimeError without self.db.
get_database == IF mongo.db = None THEN Raised(FALSE, <<>>) ELSE Value(<<>>)

\* MongoDBClient.list_collections: RuntimeError without self.db, and no
\* handler around the driver call.
list_collections(ok) ==
    IF mongo.db = None THEN Raised(FALSE, <<>>)
    ELSE IF ok THEN Value(<<DriverCall("list_collection_names", TRUE)>>)
    ELSE Raised(FALSE, <<DriverCall("list_collection_names", FALSE)>>)

\* MongoDBClient.drop_collection: self.db[name].drop() in a try block
\* (without self.db the subscript raises TypeError, which is caught too).
drop_collection(ok) ==
    Caught(IF mongo.db = None THEN Raised(FALSE, <<>>)
           ELSE IF ok THEN Value(<<DriverCall("drop", TRUE)>>)
           ELSE Raised(FALSE, <<DriverCall("drop", FALSE)>>))

MongoIndexes ==
    <<"title", "author.name", "genres", "isbn", "publication.year",
      "ratings.average", "user_id", "email", "membership.type">>

\* MongoDBClient.create_indexes: get_collection and the create_index calls
\* in one try block.
mongo_create_indexes(fail_at) ==
    Caught(IF get_database.result = "raised" THEN get_database
           ELSE IF fail_at = 0 THEN Value(Trace(MongoIndexes, fail_at))
           ELSE Raised(FALSE, Trace(MongoIndexes, fail_at)))

StatusCalls == <<"ismaster", "dbstats", "list_collection_names">>

\* MongoDBClient.get_connection_status: a dict either way; without
\* self.client no driver call is made, and without self.db (a client whose
\* connect failed) self.db.command raises after the ismaster call.
get_connection_status(fail_at) ==
    IF mongo.client = None THEN Sentinel(FALSE, <<>>)
    ELSE CaughtQuietly(
        IF fail_at = 1 THEN Raised(FALSE, Trace(StatusCalls, 1))
        ELSE IF mongo.db = None THEN Raised(FALSE, <<DriverCall("ismaster", TRUE)>>)
        ELSE IF fail_at = 0 THEN Value(Trace(StatusCalls, 0))
        ELSE Raised(FALSE, Trace(StatusCalls, fail_at)))

\* UserManager.find_user_by_id, as every method of the MongoDB managers: the
\* driver call in a try block (the managers hold a connected database).
mongo_find_user(ok) ==
    Caught(IF ok THEN Value(<<DriverCall("find_one", TRUE)>>)
           ELSE Raised(FALSE, <<DriverCall("find_one", FALSE)>>))

\* ElasticsearchClient.health_check
health_check(ok) ==
    CaughtQuietly(IF ok THEN Value(<<DriverCall("cluster.health", TRUE)>>)
                  ELSE Raised(FALSE, <<DriverCall("cluster.health", FALSE)>>))

\* ElasticsearchClient.index_exists: the driver call with no handler.
index_exists(ok) ==
    IF ok THEN Value(<<DriverCall("indices.exists", TRUE)>>)
    ELSE Raised(FALSE, <<DriverCall("indices.exists", FALSE)>>)

\* ElasticsearchClient.create_index (change = "indices.create", made when
\* the index is missing) and delete_index (change = "indices.delete", made
\* when the index is there): index_exists and the change in one try block
\* that prints the error and returns False.
change_index(change, needed, fail_at) ==
    Caught(IF fail_at = 1 THEN index_exists(FALSE)
           ELSE IF ~needed THEN index_exists(TRUE)
           ELSE IF fail_at = 0 THEN Value(Trace(<<"indices.exists", change>>, 0))
           ELSE Raised(FALSE, Trace(<<"indices.exists", change>>, 2)))

\* ElasticsearchClient.__init__ -> _create_client: prints the error and
\* raises it again (a failed ping raises ConnectionError).
es_create_client(ok) ==
    IF ok THEN Value(<<DriverCall("ping", TRUE)>>)
    ELSE Raised(TRUE, <<DriverCall("ping", FALSE)>>)

\* The client of `app` is connected: there is a driver, a database (the
\* Elasticsearch client exists only if its constructor could connect).
Connected(app) ==
    /\ app = "neo4j" => neo4j.driver # None
    /\ app = "mongodb" => mongo.db # None

\* The operation `op` of the client of `app` is called and ends as `o`; the
\* locals of an earlier connect() are gone.
Operation(app, op, o) ==
    /\ conn.pc = "idle"
    /\ last' = [app |-> app, op |-> op, connected |-> Connected(app),
                result |-> o.result, logged |-> o.logged, calls |-> o.calls]
    /\ conn' = NoConnect
    /\ UNCHANGED <<mongo, neo4j, lib_vars, ui_vars, hist, app_vars, graph_vars>>

Neo4jOperation ==
    \/ \E ok \in Driver : Operation("neo4j", "execute_query", execute_query("query", ok))
    \/ \E ok \in Driver : Operation("neo4j", "execute_write_query", execute_query("write", ok))
    \/ \E f \in 0..Len(InfoQueries) : Operation("neo4j", "get_database_info", get_database_info(f))
    \/ \E ok \in Driver : Operation("neo4j", "clear_database", clear_database(ok))
    \/ \E f \in 0..Len(IndexQueries) : Operation("neo4j", "create_indexes", neo4j_create_indexes(f))
    \/ \E oks \in [1..Len(ConstraintQueries) -> Driver] :
           Operation("neo4j", "create_constraints", create_constraints(oks))
    \/ \E ok \in Driver : Operation("neo4j", "search_movies", search_movies(ok))

MongoOperation ==
    \/ Operation("mongodb", "get_database", get_database)
    \/ Operation("mongodb", "get_collection", get_database)
    \/ \E ok \in Driver : Operation("mongodb", "list_collections", list_collections(ok))
    \/ \E ok \in Driver : Operation("mongodb", "drop_collection", drop_collection(ok))
    \/ \E f \in 0..Len(MongoIndexes) : Operation("mongodb", "create_indexes", mongo_create_indexes(f))
    \/ \E f \in 0..Len(StatusCalls) :
           Operation("mongodb", "get_connection_status", get_connection_status(f))
    \/ \E ok \in Driver : mongo.db # None /\ Operation("mongodb", "find_user_by_id", mongo_find_user(ok))

ElasticsearchOperation ==
    \/ \E ok \in Driver : Operation("elasticsearch", "_create_client", es_create_client(ok))
    \/ \E ok \in Driver : Operation("elasticsearch", "health_check", health_check(ok))
    \/ \E ok \in Driver : Operation("elasticsearch", "index_exists", index_exists(ok))
    \/ \E needed \in BOOLEAN, f \in 0..2 :
           Operation("elasticsearch", "create_index", change_index("indices.create", needed, f))
    \/ \E needed \in BOOLEAN, f \in 0..2 :
           Operation("elasticsearch", "delete_index", change_index("indices.delete", needed, f))

ClientApps == {"mongodb", "neo4j"}

NextConnect ==
    \/ \E app \in ClientApps, n \in (0 - 1)..MaxRetriesArg : connect(app, n)
    \/ \E outcome \in AttemptOutcomes : connect_attempt(outcome)
    \/ connect_sleep
    \/ \E app \in ClientApps : close(app)

NextClient ==
    \/ NextConnect
    \/ Neo4jOperation
    \/ MongoOperation
    \/ ElasticsearchOperation

\* The library database is not touched by the client specifications.
InitClientOnly ==
    /\ books_collection = <<>>
    /\ users_collection = <<>>
    /\ proc = <<>>
    /\ calls = 0
    /\ InitClient
    /\ InitRest

SpecClient == InitClientOnly /\ [][NextClient]_vars

\* connect() alone, on either client.
SpecConnect == InitClientOnly /\ [][NextConnect]_vars

\* A running connect() goes on: every attempt ends (the drivers are given
\* timeouts) and time.sleep returns.
ConnectRuns == (\E outcome \in AttemptOutcomes : connect_attempt(outcome)) \/ connect_sleep

SpecConnectFair == SpecConnect /\ WF_vars(ConnectRuns)

\* --------------------------------------------------- the clients: properties

\* Some driver call of the last operation raised.
CallFailed == \E i \in DOMAIN last.calls : ~last.calls[i].ok

\* The last operation was called on a client that is not connected.
NotConnected == ~last.connected

RaisingOperations ==
    {"execute_query", "execute_write_query", "get_database", "get_collection",
     "list_collections", "index_exists", "_create_client"}

\* The operations that fold the error into the dict they return.
QuietOperations == {"get_connection_status", "health_check"}

NoCallRepeated ==
    \A i, j \in DOMAIN last.calls :
        (i < j /\ ~last.calls[i].ok) => last.calls[j].call # last.calls[i].call

Accessors == {"get_database", "get_collection", "list_collections"}

\* The last operation raised RuntimeError("Database not connected. Call
\* connect() first."): raised before any driver call.
RaisedNotConnected == last.result = "raised" /\ last.calls = <<>>

\* C11: over any sequence of connect() and close() calls on a MongoDBClient,
\* get_database, get_collection and list_collections raise the "not
\* connected" RuntimeError exactly when no connect() has succeeded since
\* construction or since the last close().
C11_NotConnectedIffNoConnect ==
    (last.app = "mongodb" /\ last.op \in Accessors) =>
        (RaisedNotConnected <=> ~hist.succeeded)

\* list_collections answered on a client whose connect() had succeeded.
C11_Witness ==
    /\ last.app = "mongodb" /\ last.op = "list_collections"
    /\ hist.succeeded /\ last.result = "value"

\* What holds of connect() at every moment: at most max_retries attempts (none
\* when max_retries <= 0); a successful attempt is the last one and makes
\* connect() return True; it returns False when no attempt succeeded.
ConnectWithinBounds ==
    /\ Len(conn.outcomes) <= (IF conn.max_retries > 0 THEN conn.max_retries ELSE 0)
    /\ \A i \in DOMAIN conn.outcomes :
           conn.outcomes[i] = "ok" => (i = Len(conn.outcomes) /\ conn.returned /\ conn.ret)
    /\ conn.returned =>
           (conn.ret <=> (conn.outcomes # <<>> /\ conn.outcomes[Len(conn.outcomes)] = "ok"))

ActionOutcomes == {"returns", "raises", "interrupt"}

\* What is entered at the main prompt of each interface.
LibraryChoices == {"0", "None", "1", "2", "3", "4", "5", "6", "9"}
GraphChoices == {"0", "1", "2", "3", "4", "5", "6", "7", "9"}
SearchInputs == {"", "quit", "help", "/genres", "matrix"}

\* The event of one pass through the loop: the choice leaves the loop
\* ("exit"), is not on the menu ("invalid"), is empty ("empty"), or runs an
\* action, which ends as `outcome`.
LibraryEvent(choice, outcome) ==
    IF choice \in {"0", "None"} THEN "exit"
    ELSE IF choice \in {"1", "2", "3", "4", "5", "6"} THEN outcome
    ELSE "invalid"

\* In MovieGraphInterface.run every pass but choice 0 ends with
\* input("Press Enter to continue..."), which can be interrupted too.
GraphEvent(choice, outcome) ==
    IF choice = "0" THEN "exit"
    ELSE IF choice \in {"1", "2", "3", "4", "5", "6", "7"} THEN outcome
    ELSE IF outcome = "interrupt" THEN "interrupt"
    ELSE "invalid"

SearchEvent(user_input, outcome) ==
    IF user_input = "" THEN "empty"
    ELSE IF user_input = "quit" THEN "exit"
    ELSE outcome

\* LibraryInterface.run: the try block is inside the while loop; `break` on
\* choice 0 and on KeyboardInterrupt, the next pass after an Exception.
LibraryRunAfter(event) ==
    IF event = "exit" THEN [pc |-> "ended", printed |-> "Thank you for using MongoDB Library Catalog!"]
    ELSE IF event = "interrupt" THEN [pc |-> "ended", printed |-> "Exiting MongoDB Library Catalog..."]
    ELSE IF event = "raises" THEN [pc |-> "prompt", printed |-> "An error occurred"]
    ELSE IF event = "invalid" THEN [pc |-> "prompt", printed |-> "Invalid choice. Please try again."]
    ELSE [pc |-> "prompt", printed |-> ""]

\* MovieGraphInterface.run: the while loop is inside the try block, so both
\* except clauses leave the loop; finally closes the client.
GraphRunAfter(event) ==
    IF event = "exit" THEN [pc |-> "ended", printed |-> "Goodbye!"]
    ELSE IF event = "interrupt" THEN [pc |-> "ended", printed |-> "Exiting..."]
    ELSE IF event = "raises" THEN [pc |-> "ended", printed |-> "An unexpected error occurred"]
    ELSE IF event = "invalid" THEN [pc |-> "prompt", printed |-> "Invalid choice. Please try again."]
    ELSE [pc |-> "prompt", printed |-> ""]

\* MovieSearchInterface.start_interactive_search: the try block is inside
\* the while loop.
SearchRunAfter(event) ==
    IF event = "exit" THEN [pc |-> "ended", printed |-> "Goodbye!"]
    ELSE IF event = "interrupt" THEN [pc |-> "ended", printed |-> "Goodbye!"]
    ELSE IF event = "raises" THEN [pc |-> "prompt", printed |-> "Error"]
    ELSE [pc |-> "prompt", printed |-> ""]

\* One pass through the loop of an interface.
Pass(app, choice, event, after) ==
    /\ repl.app = app /\ repl.pc = "prompt"
    /\ repl.prompts < MaxPrompts
    /\ repl' = [app |-> app, pc |-> after.pc, choice |-> choice, event |-> event,
                printed |-> after.printed, prompts |-> repl.prompts + 1]

\* LibraryInterface.run is called (main() has connected the client).
library_start ==
    /\ repl.pc = "off"
    /\ repl' = [NoInterface EXCEPT !.app = "mongodb", !.pc = "prompt"]
    /\ mongo' = [client |-> Some("MongoClient"), db |-> Some("library_catalog")]
    /\ UNCHANGED <<neo4j, conn, last, lib_vars, hist, app_vars, graph_vars>>

library_run(choice, outcome) ==
    /\ Pass("mongodb", choice, LibraryEvent(choice, outcome),
            LibraryRunAfter(LibraryEvent(choice, outcome)))
    /\ UNCHANGED <<client_vars, lib_vars, hist, app_vars, graph_vars>>

\* MovieGraphInterface.run is called: connect_to_database, and the loop only
\* if it connected. A failed connect leaves the driver object of its last
\* attempt, if one was constructed.
graph_start(connected, driver) ==
    /\ repl.pc = "off"
    /\ repl' = IF connected
               THEN [NoInterface EXCEPT !.app = "neo4j", !.pc = "prompt"]
               ELSE [NoInterface EXCEPT !.app = "neo4j", !.pc = "ended",
                                        !.event = "connect_failed",
                                        !.printed = "Failed to connect to Neo4j"]
    /\ neo4j' = [driver |-> IF connected THEN Some("driver") ELSE driver]
    /\ UNCHANGED <<mongo, conn, last, lib_vars, hist, app_vars, graph_vars>>

\* A KeyboardInterrupt inside connect_to_database (at one of its input()
\* prompts, or while Neo4jClient.connect() runs): it leaves run(), whose try
\* block has not been entered.
graph_start_interrupted(driver) ==
    /\ repl.pc = "off"
    /\ repl' = [NoInterface EXCEPT !.app = "neo4j", !.pc = "ended",
                                   !.event = "connect_interrupted"]
    /\ neo4j' = [driver |-> driver]
    /\ UNCHANGED <<mongo, conn, last, lib_vars, hist, app_vars, graph_vars>>

\* Fault variant: no finally clause.
GraphRunFinally_skipped(n) == n

\* finally: if self.client: self.client.close()
GraphRunFinally(n) == Neo4jClosed(n)

graph_run(choice, outcome) ==
    /\ Pass("neo4j", choice, GraphEvent(choice, outcome),
            GraphRunAfter(GraphEvent(choice, outcome)))
    /\ neo4j' = IF GraphRunAfter(GraphEvent(choice, outcome)).pc = "ended"
                THEN GraphRunFinally(neo4j) ELSE neo4j
    /\ UNCHANGED <<mongo, conn, last, lib_vars, hist, app_vars, graph_vars>>

\* MovieSearchInterface.start_interactive_search is called.
search_start ==
    /\ repl.pc = "off"
    /\ repl' = [NoInterface EXCEPT !.app = "elasticsearch", !.pc = "prompt"]
    /\ UNCHANGED <<client_vars, lib_vars, hist, app_vars, graph_vars>>

search_run(user_input, outcome) ==
    /\ Pass("elasticsearch", user_input, SearchEvent(user_input, outcome),
            SearchRunAfter(SearchEvent(user_input, outcome)))
    /\ UNCHANGED <<client_vars, lib_vars, hist, app_vars, graph_vars>>

NextInterface ==
    \/ library_start
    \/ \E choice \in LibraryChoices, outcome \in ActionOutcomes : library_run(choice, outcome)
    \/ \E connected \in BOOLEAN, driver \in {None, Some("driver")} : graph_start(connected, driver)
    \/ \E driver \in {None, Some("driver")} : graph_start_interrupted(driver)
    \/ \E choice \in GraphChoices, outcome \in ActionOutcomes : graph_run(choice, outcome)
    \/ search_start
    \/ \E user_input \in SearchInputs, outcome \in ActionOutcomes : search_run(user_input, outcome)

SpecInterface == InitClientOnly /\ [][NextInterface]_vars

\* ------------------------------------------------ the interfaces: properties

\* C5 as stated: in each interface, a menu action that fails with an
\* exception other than KeyboardInterrupt makes the interface print a
\* message and go on to the next prompt; it never ends the session.
C5_FailureNeverEndsSession ==
    repl.event = "raises" => (repl.printed # "" /\ repl.pc = "prompt")

\* What the three loops do with such a failure: each prints a message; the
\* MongoDB and the Elasticsearch interface go on to the next prompt, the
\* Neo4j interface leaves its loop, closes its client and returns.
FailurePrintsAndContinuesButNeo4j ==
    repl.event = "raises" =>
        /\ repl.printed # ""
        /\ repl.app \in {"mongodb", "elasticsearch"} => repl.pc = "prompt"
        /\ repl.app = "neo4j" => (repl.pc = "ended" /\ neo4j.driver = None)

\* The ways run() of the Neo4j interface ends before its try block.
ConnectEvents == {"connect_failed", "connect_interrupted"}

\* C17 as stated: MovieGraphInterface.run() closes the Neo4j client it
\* constructed on every path by which it ends (failed connect, menu choice
\* 0, KeyboardInterrupt, unexpected exception): when run() is over the
\* client holds no open driver.
C17_RunAlwaysCloses ==
    (repl.app = "neo4j" /\ repl.pc = "ended") => neo4j.driver = None

\* C17 as amended: run() closes the client on every path that leaves the
\* menu loop (choice 0, KeyboardInterrupt, unexpected exception); when
\* connect_to_database fails or is interrupted, run() ends before its try
\* block without calling close().
C17_RunClosesAfterTheLoop ==
    (repl.app = "neo4j" /\ repl.pc = "ended" /\ repl.event \notin ConnectEvents)
        => (repl.prompts > 0 /\ neo4j.driver = None)

\* An action of the Neo4j menu raised: run() printed, closed the client and
\* ended.
C17_Witness ==
    /\ repl.app = "neo4j" /\ repl.pc = "ended" /\ repl.event = "raises"
    /\ repl.prompts > 0 /\ neo4j.driver = None

\* ------------------------------------------------- main() of the MongoDB CLI

\* needs_initial_setup: books_count < 100.
MinBooks == 100

\* generate_books_data: 5 books written out and 95 generated.
GeneratedBooks == 100

\* How a statement of main()'s try block ends.
MainOutcomes == {"returns", "raises", "interrupt"}

\* except KeyboardInterrupt / except Exception of main(): both print and go
\* on to the finally clause.
MainPath(outcome) == IF outcome = "interrupt" THEN "interrupt" ELSE "exception"

\* main() is started (a run of the program); mongo_client is not bound yet.
main_start ==
    /\ main.pc \in {"off", "exited"}
    /\ main.run < MaxRuns
    /\ main' = [NoMain EXCEPT !.pc = "construct", !.run = main.run + 1]
    /\ UNCHANGED <<mongo, catalog, neo4j, conn, last, hist, lib_vars, ui_vars, graph_vars>>

\* mongo_client = MongoDBClient()
main_construct(outcome) ==
    /\ main.pc = "construct"
    /\ IF outcome = "returns"
       THEN /\ main' = [main EXCEPT !.pc = "connect", !.bound = TRUE]
            /\ mongo' = [client |-> None, db |-> None]
            /\ hist' = NoHistory
       ELSE /\ main' = [main EXCEPT !.pc = "finally", !.path = MainPath(outcome)]
            /\ UNCHANGED <<mongo, hist>>
    /\ UNCHANGED <<catalog, neo4j, conn, last, lib_vars, ui_vars, graph_vars>>

\* if not mongo_client.connect(): ... return False. `outcome` is how the last
\* attempt of connect() ended; an interrupt can hit connect() before or
\* after it has created a MongoClient.
main_connect(outcome, interrupted) ==
    /\ main.pc = "connect"
    /\ mongo' = AfterAttemptMongo(mongo, IF interrupted /\ outcome = "ok"
                                         THEN "unavailable" ELSE outcome)
    /\ hist' = [succeeded |-> ~interrupted /\ outcome = "ok"]
    /\ main' = [main EXCEPT
                   !.opened = outcome # "ctor_error",
                   !.pc = IF ~interrupted /\ outcome = "ok" THEN "setup" ELSE "finally",
                   !.path = IF interrupted THEN "interrupt"
                            ELSE IF outcome = "ok" THEN "" ELSE "connect_failed"]
    /\ UNCHANGED <<catalog, neo4j, conn, last, lib_vars, ui_vars, graph_vars>>

\* DataLoader.needs_initial_setup: books_count < 100, and True when
\* count_documents raised.
SetupNeeded(books_count, ok) == IF ok THEN books_count < MinBooks ELSE TRUE

\* data_loader = DataLoader(mongo_client); if data_loader.needs_initial_setup():
main_setup(outcome, ok) ==
    /\ main.pc = "setup"
    /\ main' = IF outcome = "returns"
               THEN [main EXCEPT !.setup = Some(SetupNeeded(catalog.books, ok)),
                                 !.pc = IF SetupNeeded(catalog.books, ok)
                                        THEN "load" ELSE "interface"]
               ELSE [main EXCEPT !.pc = "finally", !.path = MainPath(outcome)]
    /\ UNCHANGED <<mongo, hist, catalog, neo4j, conn, last, lib_vars, ui_vars, graph_vars>>

\* The driver calls of load_books and load_users, in order.
LoadCalls == <<"books.drop", "books.insert_many", "users.drop", "users.insert_many">>

\* The number of books after load_all_data whose fail_at-th driver call
\* raised (0: none): drop() empties the collection, insert_many fills it; a
\* failed insert_many leaves what it had inserted (`partial`).
BooksAfterLoad(books_count, fail_at, partial) ==
    IF fail_at = 1 THEN books_count
    ELSE IF fail_at = 2 THEN partial
    ELSE GeneratedBooks

\* DataLoader.load_all_data: load_books and load_users must both return
\* True; generate_borrowing_history and create_indexes catch their errors.
LoadAllData(fail_at) == fail_at = 0

\* if data_loader.load_all_data(): ... else: ... (main() goes on either way)
main_load(fail_at, partial) ==
    /\ main.pc = "load"
    /\ catalog' = [books |-> BooksAfterLoad(catalog.books, fail_at, partial),
                   seeded |-> catalog.seeded \/ LoadAllData(fail_at)]
    /\ main' = [main EXCEPT !.load_ret = Some(LoadAllData(fail_at)), !.pc = "interface"]
    /\ UNCHANGED <<mongo, hist, neo4j, conn, last, lib_vars, ui_vars, graph_vars>>

\* interface = LibraryInterface(mongo_client); interface.run()
main_interface(outcome) ==
    /\ main.pc = "interface"
    /\ main' = [main EXCEPT !.pc = "finally",
                            !.path = IF outcome = "returns" THEN "normal"
                                     ELSE MainPath(outcome)]
    /\ UNCHANGED <<mongo, hist, catalog, neo4j, conn, last, lib_vars, ui_vars, graph_vars>>

\* Fault variant: no finally clause.
MainFinally_skipped(m, bound) == m

\* finally: try: mongo_client.close() except: pass (the NameError of an
\* unbound mongo_client is swallowed).
MainFinally(m, bound) == IF bound THEN MongoClosed(m) ELSE m

main_finally ==
    /\ main.pc = "finally"
    /\ mongo' = MainFinally(mongo, main.bound)
    /\ hist' = IF main.bound THEN NoHistory ELSE hist
    /\ main' = [main EXCEPT !.pc = "exited"]
    /\ UNCHANGED <<catalog, neo4j, conn, last, lib_vars, ui_vars, graph_vars>>

NextMain ==
    \/ main_start
    \/ \E outcome \in MainOutcomes : main_construct(outcome)
    \/ \E outcome \in AttemptOutcomes, interrupted \in BOOLEAN : main_connect(outcome, interrupted)
    \/ \E outcome \in MainOutcomes, ok \in Driver : main_setup(outcome, ok)
    \/ \E fail_at \in 0..Len(LoadCalls), partial \in {0, 1} : main_load(fail_at, partial)
    \/ \E outcome \in MainOutcomes : main_interface(outcome)
    \/ main_finally

\* The program is run on a database that is empty or holds a catalog.
InitMain ==
    /\ books_collection = <<>>
    /\ users_collection = <<>>
    /\ proc = <<>>
    /\ calls = 0
    /\ InitClient
    /\ main = NoMain
    /\ catalog \in {NoCatalog, [books |-> GeneratedBooks, seeded |-> TRUE]}
    /\ graph = NoGraph

SpecMain == InitMain /\ [][NextMain]_vars

\* ------------------------------------------------------- main(): properties

\* C12: main() closes the database client it constructed on every path by
\* which it ends (failed connect, normal exit from the interface,
\* KeyboardInterrupt, unexpected exception): when main() is over no
\* MongoClient is left open in the client.
C12_MainClosesClient ==
    main.pc = "exited" =>
        /\ main.path \in {"connect_failed", "normal", "interrupt", "exception"}
        /\ mongo.client = None /\ mongo.db = None

\* main() ended after a failed connect that had created a MongoClient, and
\* the client is closed.
C12_Witness ==
    /\ main.pc = "exited" /\ main.path = "connect_failed" /\ main.opened
    /\ mongo.client = None

\* C18: seeding is one-time: after load_all_data() returned True the books
\* collection holds at least 100 books, so needs_initial_setup() returns
\* False and a later run of main() does not reload the data.
C18_SeedingIsOneTime ==
    /\ main.load_ret = Some(TRUE) => catalog.books >= MinBooks
    /\ (catalog.seeded /\ main.setup # None /\ main.load_ret = None) => main.setup = Some(FALSE)

\* ------------------------------------------------------- the Neo4j graph

\* The sample data of DataLoader.load_sample_data, cut down: the titles,
\* names and genre names are pairwise different, and every relationship
\* joins a sample person (movie) to a sample movie (genre).
SampleMovies == {"The Matrix", "Speed"}
SamplePeople == {"Keanu Reeves", "Jan de Bont"}
SampleGenres == {"Action"}
SampleRelationships ==
    <<<<"Keanu Reeves", "The Matrix">>, <<"Keanu Reeves", "Speed">>,
      <<"Jan de Bont", "Speed">>, <<"The Matrix", "Action">>, <<"Speed", "Action">>>>

\* The names the managers are called with: those of the sample, and a person
\* and a movie that are not in the graph.
PersonNames == SamplePeople \cup {"Nobody"}
MovieTitles == SampleMovies \cup {"Nowhere"}
NodeKeys == MovieTitles \cup PersonNames \cup SampleGenres

\* The labels, each with its uniqueness constraint (create_constraints).
Labels == {"Movie", "Person", "Genre"}
SampleOf(label) ==
    IF label = "Movie" THEN SampleMovies
    ELSE IF label = "Person" THEN SamplePeople ELSE SampleGenres

\* The graph: per key the number of nodes with it, the labels under a
\* uniqueness constraint, the number of relationships.
EmptyNodes == [k \in NodeKeys |-> 0]
IsEmpty(g) == g.nodes = EmptyNodes /\ g.rels = 0

\* MATCH (a {..: x}) MATCH (b {..: y}) CREATE (a)-[..]->(b): one relationship
\* for every pair of matching nodes, none when either MATCH finds nothing;
\* the query succeeds either way.
Created(nodes, pair) == nodes[pair[1]] * nodes[pair[2]]

\* The call of a manager or loader method enters the graph's record.
GraphCall(g, nodes, constraints, rels, call) ==
    [nodes |-> nodes, constraints |-> constraints, rels |-> rels,
     calls |-> g.calls + 1, last |-> call]

\* PersonManager.add_actor_relationship / add_director_relationship: one
\* execute_write_query in a try block; True unless it raised (RuntimeError
\* without a driver included).
add_relationship(op, person_name, movie_title, ok) ==
    /\ graph.calls < MaxGraphCalls
    /\ LET o == Caught(execute_query(op, ok))
           created == IF o.result = "value"
                      THEN Created(graph.nodes, <<person_name, movie_title>>) ELSE 0
       IN  graph' = GraphCall(graph, graph.nodes, graph.constraints, graph.rels + created,
                              [op |-> op, person_name |-> person_name,
                               movie_title |-> movie_title,
                               both_exist |-> /\ graph.nodes[person_name] > 0
                                              /\ graph.nodes[movie_title] > 0,
                               created |-> created, ret |-> o.result = "value"])
    /\ UNCHANGED <<client_vars, hist, lib_vars, ui_vars, app_vars>>

add_actor_relationship(person_name, movie_title, ok) ==
    add_relationship("add_actor_relationship", person_name, movie_title, ok)

add_director_relationship(person_name, movie_title, ok) ==
    add_relationship("add_director_relationship", person_name, movie_title, ok)

\* UNWIND $rows AS row CREATE (:Label {...}) in one write transaction: it
\* raises, and creates nothing, without a driver, when the driver fails, or
\* when the label is under its uniqueness constraint and a key is taken.
LoadSucceeds(g, label, ok) ==
    /\ neo4j.driver # None
    /\ ok
    /\ label \in g.constraints => \A k \in SampleOf(label) : g.nodes[k] = 0

\* _load_movies / _load_people / _load_genres: True, or False after catching.
LoadNodes(g, label, ok) ==
    IF LoadSucceeds(g, label, ok)
    THEN [g EXCEPT !.nodes = [k \in NodeKeys |->
                                 IF k \in SampleOf(label) THEN g.nodes[k] + 1 ELSE g.nodes[k]]]
    ELSE g

\* The relationships created by the first n queries of _create_relationships.
RECURSIVE RelationshipsCreated(_, _)
RelationshipsCreated(nodes, n) ==
    IF n = 0 THEN 0
    ELSE RelationshipsCreated(nodes, n - 1) + Created(nodes, SampleRelationships[n])

\* _create_relationships: its queries in order, each its own transaction; it
\* is left at the fail_at-th query if that one raises (0: none raises).
RelationshipsSucceed(fail_at) == neo4j.driver # None /\ fail_at = 0

CreateRelationships(g, fail_at) ==
    IF neo4j.driver = None THEN g
    ELSE [g EXCEPT !.rels = @ + RelationshipsCreated(g.nodes,
                       IF fail_at = 0 THEN Len(SampleRelationships) ELSE fail_at - 1)]

\* Fault variant: `success = success and step()` in place of `success &= step()`.
RunsStep_shortcircuit(success) == success

\* success &= self._load_...(): the right-hand side is evaluated whatever
\* success is.
RunsStep(success) == TRUE

\* DataLoader.load_sample_data: the four steps in order; `oks` are the
\* driver's answers to the three node-loading queries.
LoadSampleData(g, oks, fail_at) ==
    LET run1 == RunsStep(TRUE)
        ok1 == run1 /\ LoadSucceeds(g, "Movie", oks[1])
        g1 == IF run1 THEN LoadNodes(g, "Movie", oks[1]) ELSE g
        run2 == RunsStep(ok1)
        ok2 == run2 /\ LoadSucceeds(g1, "Person", oks[2])
        g2 == IF run2 THEN LoadNodes(g1, "Person", oks[2]) ELSE g1
        run3 == RunsStep(ok1 /\ ok2)
        ok3 == run3 /\ LoadSucceeds(g2, "Genre", oks[3])
        g3 == IF run3 THEN LoadNodes(g2, "Genre", oks[3]) ELSE g2
        run4 == RunsStep(ok1 /\ ok2 /\ ok3)
        ok4 == run4 /\ RelationshipsSucceed(fail_at)
        g4 == IF run4 THEN CreateRelationships(g3, fail_at) ELSE g3
    IN  [graph |-> g4,
         attempted |-> <<run1, run2, run3, run4>>,
         results |-> <<ok1, ok2, ok3, ok4>>,
         ret |-> ok1 /\ ok2 /\ ok3 /\ ok4]

load_sample_data(oks, fail_at) ==
    /\ graph.calls < MaxGraphCalls
    /\ LET l == LoadSampleData(graph, oks, fail_at)
       IN  graph' = GraphCall(graph, l.graph.nodes, graph.constraints, l.graph.rels,
                              [op |-> "load_sample_data",
                               empty |-> IsEmpty(graph),
                               constrained |-> graph.constraints = Labels,
                               driver_fails |-> \/ neo4j.driver = None
                                                \/ \E i \in 1..3 : ~oks[i]
                                                \/ fail_at # 0,
                               attempted |-> l.attempted, results |-> l.results,
                               ret |-> l.ret])
    /\ UNCHANGED <<client_vars, hist, lib_vars, ui_vars, app_vars>>

\* Neo4jClient.clear_database: MATCH (n) DETACH DELETE n, in a try block.
graph_clear_database(ok) ==
    /\ graph.calls < MaxGraphCalls
    /\ graph' = IF Caught(execute_query("DETACH DELETE", ok)).result = "value"
                THEN GraphCall(graph, EmptyNodes, graph.constraints, 0, [op |-> "clear_database"])
                ELSE GraphCall(graph, graph.nodes, graph.constraints, graph.rels,
                               [op |-> "clear_database"])
    /\ UNCHANGED <<client_vars, hist, lib_vars, ui_vars, app_vars>>

\* Neo4jClient.create_constraints: CREATE CONSTRAINT ... IF NOT EXISTS per
\* label, each in its own try block; a constraint is not created when the
\* query raises, which it also does when the nodes there are violate it.
graph_create_constraints(oks) ==
    /\ graph.calls < MaxGraphCalls
    /\ graph' = GraphCall(graph, graph.nodes,
                          graph.constraints \cup
                              {label \in Labels :
                                   /\ neo4j.driver # None
                                   /\ oks[label]
                                   /\ \A k \in SampleOf(label) : graph.nodes[k] <= 1},
                          graph.rels, [op |-> "create_constraints"])
    /\ UNCHANGED <<client_vars, hist, lib_vars, ui_vars, app_vars>>

NextGraph ==
    \/ \E p \in PersonNames, m \in MovieTitles, ok \in Driver : add_actor_relationship(p, m, ok)
    \/ \E p \in PersonNames, m \in MovieTitles, ok \in Driver : add_director_relationship(p, m, ok)
    \/ \E oks \in [1..3 -> Driver], fail_at \in 0..Len(SampleRelationships) :
           load_sample_data(oks, fail_at)
    \/ \E ok \in Driver : graph_clear_database(ok)
    \/ \E oks \in [Labels -> Driver] : graph_create_constraints(oks)

\* A Neo4jClient, connected or not, on a graph without nodes.
InitGraph ==
    /\ books_collection = <<>>
    /\ users_collection = <<>>
    /\ proc = <<>>
    /\ calls = 0
    /\ mongo = [client |-> None, db |-> None]
    /\ neo4j \in {[driver |-> None], [driver |-> Some("driver")]}
    /\ conn = NoConnect
    /\ last = NoOperation
    /\ repl = NoInterface
    /\ hist = NoHistory
    /\ main = NoMain
    /\ catalog = NoCatalog
    /\ graph = [NoGraph EXCEPT !.nodes = EmptyNodes, !.last = [op |-> "none"]]

SpecGraph == InitGraph /\ [][NextGraph]_vars

\* ------------------------------------------------ the graph: properties

RelationshipOperations == {"add_actor_relationship", "add_director_relationship"}

\* C14: add_actor_relationship and add_director_relationship return True
\* only if the relationship was actually created, that is only if both the
\* named person and the named movie exist; when either is missing they
\* return False.
C14_TrueOnlyIfCreated ==
    graph.last.op \in RelationshipOperations =>
        /\ graph.last.ret => (graph.last.created > 0 /\ graph.last.both_exist)
        /\ ~graph.last.both_exist => ~graph.last.ret

\* What the two methods do: True whenever the query did not raise; a
\* relationship is created exactly when they return True and both nodes
\* exist.
RelationshipReturnsTrueUnlessRaised ==
    graph.last.op \in RelationshipOperations =>
        (graph.last.created > 0 <=> (graph.last.ret /\ graph.last.both_exist))

\* C19: load_sample_data attempts all four loading steps even when an
\* earlier step fails, and returns True exactly when all four steps
\* succeeded; on an empty database with the uniqueness constraints in place
\* (and a driver that answers) it returns True.
C19_LoadsAllFourSteps ==
    graph.last.op = "load_sample_data" =>
        /\ \A i \in 1..4 : graph.last.attempted[i]
        /\ graph.last.ret <=> \A i \in 1..4 : graph.last.results[i]
        /\ (graph.last.empty /\ graph.last.constrained /\ ~graph.last.driver_fails)
               => graph.last.ret

\* load_sample_data on a graph that already holds the sample, under the
\* constraints: the three node steps failed, the relationships step was
\* still run and succeeded, and the call returned False.
C19_Witness ==
    /\ graph.last.op = "load_sample_data"
    /\ graph.last.constrained /\ ~graph.last.empty /\ ~graph.last.driver_fails
    /\ graph.last.results = <<FALSE, FALSE, FALSE, TRUE>>
    /\ ~graph.last.ret

\* load_sample_data on an empty graph under the constraints returned True.
LoadedOnEmptyGraph ==
    /\ graph.last.op = "load_sample_data"
    /\ graph.last.empty /\ graph.last.constrained /\ graph.last.ret

\* ------------------------------------------------------- the library specs

\* The database after DataLoader.load_all_data: seeded books and users, the
\* users with seeded borrowing histories.
InitLibrary ==
    /\ books_collection =
           [b \in Books |-> [available_copies |-> SeedCopies(b), total_copies |-> MaxCopies,
                              ratings |-> SeedRatingsDoc(b)]]
    /\ users_collection = [u \in Users |-> [borrowing_history |-> SeedHistory(u)]]
    /\ proc = [s \in Sessions |-> Idle]
    /\ calls = 0
    /\ mongo = [client |-> Some("MongoClient"), db |-> Some("library_catalog")]
    /\ neo4j = [driver |-> None]
    /\ conn = NoConnect
    /\ last = NoOperation
    /\ repl = NoInterface
    /\ hist = [succeeded |-> TRUE]
    /\ InitRest

\* A session calls one of the manager methods the management menu offers.
Call(s) ==
    \/ \E u \in UserIdArgs, b \in BookIdArgs : borrow_book(s, u, b)
    \/ \E u \in UserIdArgs, b \in BookIdArgs, r \in RatingArgs : return_book(s, u, b, r)
    \/ \E b \in BookIdArgs, r \in RatingArgs \ {None} : add_rating(s, b, Val(r))
    \/ \E b \in BookIdArgs, a \in CopyArgs, t \in TotalArgs : update_availability(s, b, a, t)

\* A session's method performs its next driver call.
Step(s) ==
    \E ok \in Driver :
        \/ borrow_find_user(s, ok)
        \/ borrow_find_book(s, ok)
        \/ borrow_currently(s, ok)
        \/ borrow_push(s, ok)
        \/ borrow_inc(s, ok)
        \/ return_find_user(s, ok)
        \/ return_currently(s, ok)
        \/ return_set(s, ok)
        \/ return_inc(s, ok)
        \/ rating_get_book(s, ok)
        \/ rating_update(s, ok)
        \/ availability_update(s, ok)

\* The next driver call of borrow_book or return_book (with the add_rating
\* that return_book calls).
StepUser(s) ==
    \E ok \in Driver :
        \/ borrow_find_user(s, ok)
        \/ borrow_find_book(s, ok)
        \/ borrow_currently(s, ok)
        \/ borrow_push(s, ok)
        \/ borrow_inc(s, ok)
        \/ return_find_user(s, ok)
        \/ return_currently(s, ok)
        \/ return_set(s, ok)
        \/ return_inc(s, ok)
        \/ rating_get_book(s, ok)
        \/ rating_update(s, ok)

\* One CLI process: a single-threaded, blocking REPL, so one call at a time.
Main == "s1"

Next == Call(Main) \/ Step(Main)

Spec == InitLibrary /\ [][Next]_vars

\* Two CLI processes on the same database: their driver calls interleave.
\* (the calls with missing or malformed arguments are those of Spec; here
\* the sessions borrow and return existing books for existing users).
CallUser(s) ==
    \/ \E u \in Users, b \in Books : borrow_book(s, u, b)
    \/ \E u \in Users, b \in Books, r \in {None, Some(5)} : return_book(s, u, b, r)

NextRace == \E s \in Sessions : CallUser(s) \/ StepUser(s)

SpecRace == InitLibrary /\ [][NextRace]_vars

\* One CLI process that only borrows and returns, with any arguments: the
\* calls are issued one at a time.
CallLoan(s) ==
    \/ \E u \in UserIdArgs, b \in BookIdArgs : borrow_book(s, u, b)
    \/ \E u \in UserIdArgs, b \in BookIdArgs, r \in RatingArgs : return_book(s, u, b, r)

NextLoans == CallLoan(Main) \/ StepUser(Main)

SpecLoans == InitLibrary /\ [][NextLoans]_vars

\* ------------------------------------------------- the library: properties

\* The last call of session s was `op` and has returned.
Done(s, op) == proc[s].pc = "idle" /\ proc[s].op = op

\* The call of session s left the database as it found it.
NothingChanged(s) ==
    /\ books_collection = proc[s].pre.books
    /\ users_collection = proc[s].pre.users

\* available_copies of the book of the call of s, now and when it was entered.
CopiesNow(s) == books_collection[proc[s].book_id].available_copies
CopiesBefore(s) == proc[s].pre.books[proc[s].book_id].available_copies

\* When the call of s was entered, its user held an unreturned record for
\* its book.
HeldBefore(s) ==
    /\ proc[s].user_id \in Users
    /\ \E i \in DOMAIN proc[s].pre.users[proc[s].user_id].borrowing_history :
           LET record == proc[s].pre.users[proc[s].user_id].borrowing_history[i]
           IN  record.book_id = proc[s].book_id /\ record.returned_date = None

\* C1: a borrow_book call that returns True has lowered the book's
\* available_copies by exactly 1, and a return_book call that returns True
\* has raised it by exactly 1.
C1_CounterMovesByOne ==
    \A s \in Sessions :
        /\ (Done(s, "borrow_book") /\ proc[s].ret) => CopiesNow(s) = CopiesBefore(s) - 1
        /\ (Done(s, "return_book") /\ proc[s].ret) => CopiesNow(s) = CopiesBefore(s) + 1

\* u2 borrowed b1 and has now returned it: the counter is back at its seed.
C1_Witness ==
    /\ Done(Main, "return_book") /\ proc[Main].ret
    /\ proc[Main].user_id = "u2" /\ proc[Main].book_id = "b1"
    /\ CopiesBefore(Main) = SeedCopies("b1") - 1
    /\ CopiesNow(Main) = SeedCopies("b1")

\* C6: borrow_book returns False and changes neither a borrowing_history nor
\* an available_copies when the user does not exist, the book does not
\* exist, the book has no available copy, or the user already holds an
\* unreturned record for the book.
C6_BorrowRefused ==
    \A s \in Sessions :
        (/\ Done(s, "borrow_book")
         /\ \/ proc[s].user_id \notin Users
            \/ proc[s].book_id \notin Books
            \/ CopiesBefore(s) <= 0
            \/ HeldBefore(s))
        => (~proc[s].ret /\ NothingChanged(s))

\* C7: return_book returns False and changes nothing when the user has no
\* unreturned record for the book; it returns True only if there was one.
C7_ReturnNeedsRecord ==
    \A s \in Sessions :
        Done(s, "return_book") =>
            /\ ~HeldBefore(s) => (~proc[s].ret /\ NothingChanged(s))
            /\ proc[s].ret => HeldBefore(s)

\* u2 exists, has a returned record for b2 and none that is out: the return
\* of b2 is refused.
C7_Witness ==
    /\ Done(Main, "return_book")
    /\ proc[Main].user_id = "u2" /\ proc[Main].book_id = "b2"
    /\ ~HeldBefore(Main)
    /\ proc[Main].log = "User does not have this book borrowed"

\* The rating argument of the call of s is a number outside 1..5.
RatingOutside(s) ==
    /\ proc[s].rating # None
    /\ (Val(proc[s].rating) < 1 \/ Val(proc[s].rating) > 5)

\* C8: a rating outside 1..5 is rejected with no state change, by add_rating
\* and by return_book.
C8_BadRatingRejected ==
    \A s \in Sessions :
        ((Done(s, "add_rating") \/ Done(s, "return_book")) /\ RatingOutside(s))
        => (~proc[s].ret /\ NothingChanged(s))

\* u1 returns b1, which it holds, with a rating of 0 or 6: refused.
C8_Witness ==
    /\ Done(Main, "return_book") /\ RatingOutside(Main) /\ HeldBefore(Main)
    /\ proc[Main].log = "Rating must be between 1 and 5"

\* C9: add_rating(book, r) with r in 1..5 that returns True has raised
\* ratings.count by 1 and ratings.distribution[r-1] by 1 and left the other
\* four buckets alone.
C9_RatingCounted ==
    \A s \in Sessions :
        (Done(s, "add_rating") /\ proc[s].ret) =>
            LET r == Val(proc[s].rating)
                now == books_collection[proc[s].book_id].ratings
                before == proc[s].pre.books[proc[s].book_id].ratings
            IN  /\ r \in 1..5
                /\ now.count = before.count + 1
                /\ \A k \in 1..5 :
                       now.distribution[k] =
                           before.distribution[k] + (IF k = r THEN 1 ELSE 0)

\* A rating of 1 has been added to the seeded book b1.
C9_Witness ==
    /\ Done(Main, "add_rating") /\ proc[Main].ret
    /\ proc[Main].book_id = "b1" /\ proc[Main].rating = Some(1)
    /\ books_collection["b1"].ratings.distribution[1] = 1

\* C2: the check and the decrement of borrow_book are separate, unguarded
\* steps: when the only two calls made are borrow_book calls of two sessions
\* for different users on the same book and both returned True, the book's
\* available_copies has gone down by 2, whatever the check read.
C2_BothBorrowsDecrement ==
    \A s, t \in Sessions :
        (/\ s # t /\ calls = 2
         /\ Done(s, "borrow_book") /\ proc[s].ret
         /\ Done(t, "borrow_book") /\ proc[t].ret
         /\ proc[s].book_id = proc[t].book_id
         /\ proc[s].user_id # proc[t].user_id)
        => CopiesNow(s) = SeedCopies(proc[s].book_id) - 2

\* Both sessions read available_copies = 1 of b1, both returned True, and
\* the counter is at -1.
C2_Witness ==
    /\ calls = 2
    /\ \A s \in Sessions :
           /\ Done(s, "borrow_book") /\ proc[s].ret /\ proc[s].book_id = "b1"
           /\ Val(proc[s].book).available_copies = 1
    /\ proc["s1"].user_id # proc["s2"].user_id
    /\ books_collection["b1"].available_copies = 0 - 1

\* The book of the call of s, now and when the call was entered.
BookNow(s) == books_collection[proc[s].book_id]
BookBefore(s) == proc[s].pre.books[proc[s].book_id]

\* C13: update_availability performs no validation: when it returns True the
\* book holds exactly the available_copies and total_copies it was given (a
\* field not given keeps its value), whatever they are, so available_copies
\* may end up above total_copies or below 0.
C13_StoresWhatItIsGiven ==
    \A s \in Sessions :
        (Done(s, "update_availability") /\ proc[s].ret) =>
            /\ BookNow(s).available_copies =
                   (IF proc[s].available_copies # None THEN Val(proc[s].available_copies)
                    ELSE BookBefore(s).available_copies)
            /\ BookNow(s).total_copies =
                   (IF proc[s].total_copies # None THEN Val(proc[s].total_copies)
                    ELSE BookBefore(s).total_copies)

\* update_availability(b, -1, 1) returned True: the book has -1 available
\* copies of 1.
C13_Witness ==
    /\ Done(Main, "update_availability") /\ proc[Main].ret
    /\ proc[Main].available_copies = Some(0 - 1) /\ proc[Main].total_copies = Some(1)
    /\ BookNow(Main).available_copies < 0
    /\ BookNow(Main).total_copies = 1

\* update_availability(b, MaxCopies, 1) returned True: more copies available
\* than the book has.
AboveTotalStored ==
    /\ Done(Main, "update_availability") /\ proc[Main].ret
    /\ BookNow(Main).available_copies > BookNow(Main).total_copies

\* The number of unreturned records for book b in a borrowing history.
RECURSIVE UnreturnedIn(_, _)
UnreturnedIn(history, b) ==
    IF history = <<>> THEN 0
    ELSE (IF Head(history).book_id = b /\ Head(history).returned_date = None THEN 1 ELSE 0)
         + UnreturnedIn(Tail(history), b)

\* The number of unreturned records for book b across the users in `users`.
RECURSIVE UnreturnedOf(_, _, _)
UnreturnedOf(coll, users, b) ==
    IF users = {} THEN 0
    ELSE LET u == CHOOSE x \in users : TRUE
         IN  UnreturnedIn(coll[u].borrowing_history, b) + UnreturnedOf(coll, users \ {u}, b)

\* available_copies of b plus the unreturned records for it.
CopiesAndLoans(b) ==
    books_collection[b].available_copies + UnreturnedOf(users_collection, Users, b)

\* The same in the seeded database.
SeedCopiesAndLoans(b) ==
    SeedCopies(b) + UnreturnedOf([u \in Users |-> [borrowing_history |-> SeedHistory(u)]], Users, b)

\* C15: for every book, available_copies plus the number of unreturned
\* borrowing records for it is unchanged by any sequence of borrow_book and
\* return_book calls issued one at a time, whether they return True or False.
C15_CopiesAndLoansConserved ==
    proc[Main].pc = "idle" => \A b \in Books : CopiesAndLoans(b) = SeedCopiesAndLoans(b)

\* C16: starting with at most one unreturned record per user and book, after
\* any sequence of borrow_book and return_book calls issued one at a time
\* every user still has at most one unreturned record per book.
C16_OneLoanPerUserAndBook ==
    \A u \in Users, b \in Books : UnreturnedIn(users_collection[u].borrowing_history, b) <= 1

====
